---- MODULE Spec2Model ----
(***************************************************************************)
(* Address book service (src/main.py): a FastAPI application whose five   *)
(* handlers read and write one SQLite table through SQLAlchemy sessions.  *)
(*                                                                         *)
(* Two specifications share the definitions of the store operations:      *)
(*   Spec      one request at a time, each action one whole handler;      *)
(*   ConcSpec  two requests in flight, one action per store access of a   *)
(*             handler (query, commit, refresh) and per session step.     *)
(***************************************************************************)
EXTENDS Integers, FiniteSets, Sequences, TLC

\* Largest rowid the model lets the table reach.
MaxId == 2

\* Most sessions ConcSpec lets SessionLocal() make, one for each request.
MaxSessions == 3

\* ------------------------------------------------------------------ values
\* Python None / SQL NULL / JSON null is the empty tuple, a value v is <<v>>.
None == <<>>

Fields == {"name", "latitude", "longitude"}

Names == {<<"">>, <<"Home">>}
Lats == {<<40>>, <<41>>}
Lons == {<<-73>>}

\* Ids a client may put in the path: every rowid of the model and one beyond.
Ids == 1..(MaxId + 1)

Max(S) == CHOOSE m \in S : \A n \in S : n <= m

Abs(n) == IF n < 0 THEN -n ELSE n

Restrict(f, S) == [k \in S |-> f[k]]

\* JSON request bodies without null: any subset of the three keys.
ValueBodies ==
  { Restrict(f, S) :
      f \in [name : Names, latitude : Lats, longitude : Lons],
      S \in SUBSET Fields }

\* JSON request bodies that send null: one key, or all three with one null.
NullBodies ==
  { Restrict(f, S) :
      f \in [name : {None}, latitude : {None}, longitude : {None}],
      S \in {{"name"}, {"latitude"}, {"longitude"}} }
  \cup
  { f \in [name : {<<"Home">>, None}, latitude : {<<40>>, None},
           longitude : {<<-73>>, None}] :
      Cardinality({k \in Fields : f[k] = None}) = 1 }

Bodies == ValueBodies \cup NullBodies

\* ------------------------------------------------------- request validation
\* AddressCreate: three required fields, none of them Optional.
ValidCreate(json) ==
  /\ DOMAIN json = Fields
  /\ \A k \in Fields : json[k] # None

\* A mutant of ValidUpdate: every field Optional, so null passes.
ValidUpdateOptional(json) ==
  DOMAIN json \subseteq Fields

\* AddressUpdate: every field has a default (may be omitted), none is Optional
\* (a field that is sent must be a str / a float).
ValidUpdate(json) ==
  \A k \in DOMAIN json : json[k] # None

\* The AddressUpdate object built from a valid body: every attribute exists,
\* an omitted one holds its default None, fields_set records what was sent.
ParseUpdate(json) ==
  [name |-> IF "name" \in DOMAIN json THEN json.name ELSE None,
   latitude |-> IF "latitude" \in DOMAIN json THEN json.latitude ELSE None,
   longitude |-> IF "longitude" \in DOMAIN json THEN json.longitude ELSE None,
   fields_set |-> DOMAIN json]

\* A mutant of ModelDump: model_dump() without exclude_unset.
ModelDumpAll(address) ==
  Restrict(address, Fields)

\* address.model_dump(exclude_unset=True): the fields that were sent.
ModelDump(address) ==
  Restrict(address, address.fields_set)

\* ------------------------------------------------------------------- store
\* The addresses table: rowid -> row.
Row(name, latitude, longitude) ==
  [name |-> name, latitude |-> latitude, longitude |-> longitude]

\* The ORM object of row id of table st.
Entity(st, id) ==
  [id |-> id, name |-> st[id].name,
   latitude |-> st[id].latitude, longitude |-> st[id].longitude]

\* id = Column(Integer, primary_key=True) on SQLite is an alias of the rowid
\* (no AUTOINCREMENT): an INSERT takes the largest rowid in the table plus one.
NewRowid(st) ==
  IF DOMAIN st = {} THEN 1 ELSE Max(DOMAIN st) + 1

\* A mutant of QueryFirst: the filter is lost, first() of the whole table.
QueryFirstNoFilter(st, address_id) ==
  IF DOMAIN st # {}
  THEN Entity(st, CHOOSE m \in DOMAIN st : \A n \in DOMAIN st : m <= n)
  ELSE None

\* db.query(Address).filter(Address.id == address_id).first()
QueryFirst(st, address_id) ==
  IF address_id \in DOMAIN st THEN Entity(st, address_id) ELSE None

RECURSIVE SeqOfIds(_, _)
SeqOfIds(st, S) ==
  IF S = {} THEN <<>>
  ELSE LET i == CHOOSE m \in S : \A n \in S : m <= n
       IN <<Entity(st, i)>> \o SeqOfIds(st, S \ {i})

\* db.query(Address).all(): every row once, in rowid order.
QueryAll(st) == SeqOfIds(st, DOMAIN st)

\* setattr(db_address, key, value) for every item of update_data.
SetAttrs(db_address, update_data) ==
  [k \in DOMAIN db_address |->
     IF k \in DOMAIN update_data THEN update_data[k] ELSE db_address[k]]

\* The columns of the unit of work's UPDATE: the attributes whose value now
\* differs from the value that was loaded.
Changed(loaded, obj) ==
  {k \in Fields : obj[k] # loaded[k]}

\* db.commit() of a session holding the modified object obj that was loaded
\* as `loaded`: no statement when nothing changed; otherwise
\* UPDATE addresses SET <changed columns> WHERE id = ?, which must match one
\* row and must respect nullable=False of latitude and longitude.
FlushUpdate(st, loaded, obj) ==
  LET changed == Changed(loaded, obj) IN
  IF changed = {}
  THEN [error |-> "", store |-> st]
  ELSE IF loaded.id \notin DOMAIN st
  THEN [error |-> "StaleDataError", store |-> st]
  ELSE IF \E k \in changed \cap {"latitude", "longitude"} : obj[k] = None
  THEN [error |-> "IntegrityError", store |-> st]
  ELSE [error |-> "",
        store |-> [st EXCEPT ![loaded.id] =
                     [k \in Fields |-> IF k \in changed THEN obj[k] ELSE @[k]]]]

\* A mutant of FlushDelete: the DELETE has no WHERE clause.
FlushDeleteAll(st, loaded) ==
  Restrict(st, {})

\* db.delete(db_address); db.commit(): DELETE FROM addresses WHERE id = ?.
\* A DELETE that matches no row only warns.
FlushDelete(st, loaded) ==
  Restrict(st, DOMAIN st \ {loaded.id})

\* A mutant of FlushInsert: latitude and longitude change places.
FlushInsertSwapped(st, json) ==
  LET id == NewRowid(st) IN
  [id |-> id,
   store |-> [i \in DOMAIN st \cup {id} |->
                IF i = id THEN Row(json.name, json.longitude, json.latitude)
                ELSE st[i]]]

\* db.add(db_address); db.commit(): INSERT with a fresh rowid.
FlushInsert(st, json) ==
  LET id == NewRowid(st) IN
  [id |-> id,
   store |-> [i \in DOMAIN st \cup {id} |->
                IF i = id THEN Row(json.name, json.latitude, json.longitude)
                ELSE st[i]]]

\* geodesic(p, q).km, an abstract distance on the model's coordinates.
Geodesic(lat1, lon1, lat2, lon2) ==
  Abs(lat1[1] - lat2[1]) + Abs(lon1[1] - lon2[1])

\* Distances a client may ask for.
Dists == {0, 1}

\* A mutant of WithinDistance: strict comparison.
WithinDistanceStrict(addresses, latitude, longitude, distance) ==
  SelectSeq(addresses,
            LAMBDA a : Geodesic(latitude, longitude, a.latitude, a.longitude) < distance)

\* The list comprehension of get_addresses_within_distance.
WithinDistance(addresses, latitude, longitude, distance) ==
  SelectSeq(addresses,
            LAMBDA a : Geodesic(latitude, longitude, a.latitude, a.longitude) <= distance)

\* --------------------------------------------------------------- variables
VARIABLES
  store,    \* the addresses table
  last,     \* Spec: the last request and its response
  issued,   \* history: the ids Create has returned so far
  gone,     \* history: the ids deleted since the last Create
  req,      \* ConcSpec: the request each slot is serving
  made,     \* ConcSpec: how many sessions SessionLocal() has made
  open      \* ConcSpec: the sessions that are open

vars == <<store, last, issued, gone, req, made, open>>

\* ------------------------------------------------------------ Spec (serial)
\* What a request was (operation, path id, keys of its body, query
\* parameters) and its response.
Response(op, id, json, args, status, body) ==
  [op |-> op, id |-> id, fields |-> DOMAIN json, args |-> args,
   status |-> status, body |-> body]

NotFound == [detail |-> "Address not found"]

Deleted == [detail |-> "Address deleted"]

\* POST /addresses/
CreateAddress(json) ==
  /\ UNCHANGED <<req, made, open>>
  /\ IF ~ValidCreate(json)
     THEN /\ last' = Response("create", 0, json, None, 422, None)
          /\ UNCHANGED <<store, issued, gone>>
     ELSE LET ins == FlushInsert(store, json) IN
          /\ ins.id <= MaxId
          /\ store' = ins.store
          /\ last' = Response("create", 0, json, None, 201, QueryFirst(ins.store, ins.id))
          /\ issued' = issued \cup {ins.id}
          /\ gone' = {}

\* PUT /addresses/{address_id}
UpdateAddress(address_id, json) ==
  /\ UNCHANGED <<issued, gone, req, made, open>>
  /\ IF ~ValidUpdate(json)
     THEN /\ last' = Response("update", address_id, json, None, 422, None)
          /\ UNCHANGED store
     ELSE LET db_address == QueryFirst(store, address_id) IN
          IF db_address = None
          THEN /\ last' = Response("update", address_id, json, None, 404, NotFound)
               /\ UNCHANGED store
          ELSE LET update_data == ModelDump(ParseUpdate(json))
                   obj == SetAttrs(db_address, update_data)
                   flush == FlushUpdate(store, db_address, obj)
               IN IF flush.error # ""
                  THEN /\ last' = Response("update", address_id, json, None, 500, None)
                       /\ UNCHANGED store
                  ELSE /\ store' = flush.store
                       /\ last' = Response("update", address_id, json, None, 200,
                                           QueryFirst(flush.store, address_id))

\* DELETE /addresses/{address_id}
DeleteAddress(address_id) ==
  /\ UNCHANGED <<issued, req, made, open>>
  /\ LET db_address == QueryFirst(store, address_id) IN
     IF db_address = None
     THEN /\ last' = Response("delete", address_id, None, None, 404, NotFound)
          /\ UNCHANGED <<store, gone>>
     ELSE /\ store' = FlushDelete(store, db_address)
          /\ last' = Response("delete", address_id, None, None, 200, Deleted)
          /\ gone' = gone \cup {address_id}

\* GET /addresses/
GetAddresses ==
  /\ last' = Response("list", 0, None, None, 200, QueryAll(store))
  /\ UNCHANGED <<store, issued, gone, req, made, open>>

\* GET /addresses/within_distance/
GetAddressesWithinDistance(latitude, longitude, distance) ==
  /\ last' = Response("within", 0, None,
                      [latitude |-> latitude, longitude |-> longitude,
                       distance |-> distance],
                      200,
                      WithinDistance(QueryAll(store), latitude, longitude, distance))
  /\ UNCHANGED <<store, issued, gone, req, made, open>>

Idle == [pc |-> "idle"]

Slots == {"A", "B"}

Init ==
  /\ store = <<>>
  /\ last = Response("none", 0, None, None, 0, None)
  /\ issued = {}
  /\ gone = {}
  /\ req = [s \in Slots |-> Idle]
  /\ made = 0
  /\ open = {}

Create == \E json \in Bodies : CreateAddress(json)

Update == \E address_id \in Ids, json \in Bodies : UpdateAddress(address_id, json)

Delete == \E address_id \in Ids : DeleteAddress(address_id)

ListAll == GetAddresses

Within ==
  \E latitude \in Lats, longitude \in Lons, distance \in Dists :
    GetAddressesWithinDistance(latitude, longitude, distance)

Next == Create \/ Update \/ Delete \/ ListAll \/ Within

Spec == Init /\ [][Next]_vars

\* ------------------------------------------------- ConcSpec (interleaved)
\* The requests the interleaved specification sends.
Call(op, id, address, args) ==
  [op |-> op, id |-> id, address |-> address, args |-> args]

ConcCalls ==
  {Call("create", 0, Row(<<"Home">>, <<40>>, <<-73>>), None)}
  \cup {Call("update", id, ParseUpdate(json), None) :
          id \in 1..MaxId,
          json \in {Restrict(Row(<<"">>, lat, <<-73>>), S) :
                      lat \in {<<40>>, <<41>>}, S \in {{"latitude"}, {"name"}}}}
  \cup {Call("delete", id, None, None) : id \in 1..MaxId}
  \cup {Call("list", 0, None, None)}
  \cup {Call("within", 0, None,
             [latitude |-> <<40>>, longitude |-> <<-73>>, distance |-> 0])}

Active == {s \in Slots : req[s].pc \notin {"idle", "done"}}

\* A slot's request at a point of its handler.
At(s, op, pc) == req[s].pc = pc /\ req[s].op = op

Running(call, db) ==
  [pc |-> "start", op |-> call.op, id |-> call.id, address |-> call.address,
   args |-> call.args, db |-> db, db_address |-> None,
   status |-> 0, error |-> "", body |-> None]

\* return: the handler's result is the response.
Returned(r, status, body) ==
  [r EXCEPT !.pc = "returned", !.status = status, !.body = body,
            !.db_address = None]

\* raise: the exception is the response (HTTPException 404, or a 500).
Raised(r, status, error) ==
  [r EXCEPT !.pc = "raised", !.status = status, !.error = error,
            !.db_address = None]

Frame == UNCHANGED <<last, issued, gone>>

\* What is left of a request once it is over.
Over(r) ==
  [r EXCEPT !.pc = "done", !.id = 0, !.address = None, !.args = None,
            !.body = None]

\* SessionLocal(): a new Session object, the n+1st the factory makes.
SessionLocal(n) == n + 1

\* get_db up to its yield: db = SessionLocal(), and the request enters its
\* handler with it.
GetDbEnter(s, call) ==
  /\ req[s].pc \in {"idle", "done"}
  /\ made < MaxSessions
  /\ LET db == SessionLocal(made) IN
     /\ req' = [req EXCEPT ![s] = Running(call, db)]
     /\ open' = open \cup {db}
  /\ made' = made + 1
  /\ UNCHANGED store
  /\ Frame

\* A mutant of GetDbExit: no finally, the session is closed after a return only.
GetDbExitNoFinally(s) ==
  /\ req[s].pc \in {"returned", "raised"}
  /\ req' = [req EXCEPT ![s] = Over(@)]
  /\ open' = IF req[s].pc = "returned" THEN open \ {req[s].db} ELSE open
  /\ UNCHANGED <<store, made>>
  /\ Frame

\* get_db after its yield: finally db.close(), after a return and after a raise.
GetDbExit(s) ==
  /\ req[s].pc \in {"returned", "raised"}
  /\ req' = [req EXCEPT ![s] = Over(@)]
  /\ open' = open \ {req[s].db}
  /\ UNCHANGED <<store, made>>
  /\ Frame

\* create_address: db.add(db_address); db.commit()
CreateCommit(s) ==
  /\ At(s, "create", "start")
  /\ LET ins == FlushInsert(store, req[s].address) IN
     /\ ins.id <= MaxId
     /\ store' = ins.store
     /\ req' = [req EXCEPT ![s].pc = "committed", ![s].id = ins.id]
  /\ UNCHANGED <<made, open>>
  /\ Frame

\* db.refresh(db_address): SELECT ... WHERE id = ?, an error when no row is left.
Refresh(s, status) ==
  LET row == QueryFirst(store, req[s].id) IN
  /\ req' = [req EXCEPT ![s] =
               IF row = None THEN Raised(@, 500, "InvalidRequestError")
               ELSE Returned(@, status, row)]
  /\ UNCHANGED <<store, made, open>>
  /\ Frame

\* create_address: db.refresh(db_address); return db_address
CreateRefresh(s) ==
  /\ At(s, "create", "committed")
  /\ Refresh(s, 201)

\* update_address / delete_address: the lookup and the 404 when it finds nothing.
Lookup(s) ==
  LET db_address == QueryFirst(store, req[s].id) IN
  /\ req' = [req EXCEPT ![s] =
               IF db_address = None THEN Raised(@, 404, "Address not found")
               ELSE [@ EXCEPT !.pc = "queried", !.db_address = db_address]]
  /\ UNCHANGED <<store, made, open>>
  /\ Frame

UpdateQuery(s) ==
  /\ At(s, "update", "start")
  /\ Lookup(s)

\* update_address: model_dump, the setattr loop and db.commit()
UpdateCommit(s) ==
  /\ At(s, "update", "queried")
  /\ LET update_data == ModelDump(req[s].address)
         obj == SetAttrs(req[s].db_address, update_data)
         flush == FlushUpdate(store, req[s].db_address, obj)
     IN /\ store' = flush.store
        /\ req' = [req EXCEPT ![s] =
                     IF flush.error # "" THEN Raised(@, 500, flush.error)
                     ELSE [@ EXCEPT !.pc = "committed", !.db_address = None]]
  /\ UNCHANGED <<made, open>>
  /\ Frame

\* update_address: db.refresh(db_address); return db_address
UpdateRefresh(s) ==
  /\ At(s, "update", "committed")
  /\ Refresh(s, 200)

DeleteQuery(s) ==
  /\ At(s, "delete", "start")
  /\ Lookup(s)

\* delete_address: db.delete(db_address); db.commit(); return the detail.
\* The unit of work only warns when its DELETE matched no row.
DeleteCommit(s) ==
  /\ At(s, "delete", "queried")
  /\ store' = FlushDelete(store, req[s].db_address)
  /\ req' = [req EXCEPT ![s] =
               [Returned(@, 200, Deleted) EXCEPT
                  !.error = IF req[s].id \in DOMAIN store THEN ""
                            ELSE "SAWarning: 0 rows matched"]]
  /\ UNCHANGED <<made, open>>
  /\ Frame

\* get_addresses
ListQuery(s) ==
  /\ At(s, "list", "start")
  /\ req' = [req EXCEPT ![s] = Returned(@, 200, QueryAll(store))]
  /\ UNCHANGED <<store, made, open>>
  /\ Frame

\* get_addresses_within_distance
WithinQuery(s) ==
  /\ At(s, "within", "start")
  /\ req' = [req EXCEPT ![s] =
               Returned(@, 200,
                        WithinDistance(QueryAll(store), req[s].args.latitude,
                                       req[s].args.longitude, req[s].args.distance))]
  /\ UNCHANGED <<store, made, open>>
  /\ Frame

\* A store access (query, commit or refresh) fails, e.g. "database is
\* locked": the exception leaves the handler, nothing is written.
StoreFailure(s) ==
  /\ req[s].pc \in {"start", "queried", "committed"}
  /\ req' = [req EXCEPT ![s] = Raised(@, 500, "OperationalError")]
  /\ UNCHANGED <<store, made, open>>
  /\ Frame

ConcNext ==
  \E s \in Slots :
    \/ \E call \in ConcCalls : GetDbEnter(s, call)
    \/ GetDbExit(s)
    \/ CreateCommit(s) \/ CreateRefresh(s)
    \/ UpdateQuery(s) \/ UpdateCommit(s) \/ UpdateRefresh(s)
    \/ DeleteQuery(s) \/ DeleteCommit(s)
    \/ ListQuery(s) \/ WithinQuery(s)
    \/ StoreFailure(s)

ConcSpec == Init /\ [][ConcNext]_vars

\* ------------------------------------------------- properties under Spec
\* The valid bodies whose keys are exactly S.
BodiesWith(S) == {json \in ValueBodies : DOMAIN json = S}

\* The ids of the records of a response list.
IdsOf(list) == {list[n].id : n \in 1..Len(list)}

\* What a successful Update(address_id, json) must leave behind.
UpdateEffect(address_id, json) ==
  /\ DOMAIN store' = DOMAIN store
  /\ address_id \in DOMAIN store
  /\ \A k \in DOMAIN json : store'[address_id][k] = json[k]
  /\ \A k \in Fields \ DOMAIN json : store'[address_id][k] = store[address_id][k]
  /\ \A i \in DOMAIN store \ {address_id} : store'[i] = store[i]
  /\ last'.body = Entity(store', address_id)

\* C1: a successful Update leaves the record with the payload's value in
\* every field the payload holds (zero and the empty string included), with
\* its previous value in every field the payload omits, with the same id, and
\* leaves every other record as it was.
C1_UpdateAppliesPresentFieldsOnly ==
  [][ (last'.op = "update" /\ last'.status = 200) =>
        \A json \in BodiesWith(last'.fields) :
          UpdateAddress(last'.id, json) => UpdateEffect(last'.id, json) ]_vars

\* Home at (40, -73) after Update {latitude: 41}, beside another record.
C1_Witness ==
  /\ last.op = "update" /\ last.status = 200
  /\ last.fields = {"latitude"}
  /\ last.body = [id |-> last.id, name |-> <<"Home">>,
                  latitude |-> <<41>>, longitude |-> <<-73>>]
  /\ Cardinality(DOMAIN store) = 2

\* C2: Update (with a body that passes validation) and Delete on an id that
\* no stored record has answer 404 "Address not found", and the store is
\* left exactly as it was whatever the body.
C2_UnknownIdIsNotFound ==
  [][ (last'.op \in {"update", "delete"} /\ last'.id \notin DOMAIN store) =>
        /\ store' = store
        /\ \/ last'.status = 404 /\ last'.body = NotFound
           \/ last'.op = "update" /\ last'.status = 422
        /\ \A json \in BodiesWith(last'.fields) :
             UpdateAddress(last'.id, json) => last'.status = 404 ]_vars

C2_Witness ==
  /\ last.op = "update" /\ last.status = 404
  /\ last.fields # {}
  /\ last.id \notin DOMAIN store
  /\ DOMAIN store # {}

\* C3: the id a Create returns was never returned by an earlier Create.
C3_IdNeverReused ==
  [][ (last'.op = "create" /\ last'.status = 201) =>
        last'.body.id \notin issued ]_vars

\* C4: the record Create returns carries the request's three values; the
\* list of all records then holds it exactly once, and holds every record
\* that was stored before the Create, unchanged.
C4_CreateThenListAll ==
  [][ /\ (last'.op = "create" /\ last'.status = 201) =>
           LET c == last'.body
               list == QueryAll(store')
           IN /\ Cardinality({n \in 1..Len(list) : list[n].id = c.id}) = 1
              /\ \E n \in 1..Len(list) : list[n] = c
              /\ \A json \in BodiesWith(Fields) :
                   CreateAddress(json) =>
                     /\ c.name = json.name
                     /\ c.latitude = json.latitude
                     /\ c.longitude = json.longitude
              /\ \A i \in DOMAIN store :
                   /\ i \in DOMAIN store' /\ store'[i] = store[i]
                   /\ \E n \in 1..Len(list) : list[n] = Entity(store, i)
      /\ (last.op = "create" /\ last.status = 201 /\ last'.op = "list") =>
           /\ Cardinality({n \in 1..Len(last'.body) :
                             last'.body[n].id = last.body.id}) = 1
           /\ \E n \in 1..Len(last'.body) : last'.body[n] = last.body ]_vars

C4_Witness ==
  /\ last.op = "create" /\ last.status = 201
  /\ Cardinality(DOMAIN store) = 2
  /\ last.body.id \in DOMAIN store

\* C5: Delete of a stored id answers "Address deleted" and removes that
\* record and no other; until a later Create no list holds a deleted id and
\* a further Delete of it answers 404.
C5_DeleteRemovesForGood ==
  [][ /\ (last'.op = "delete" /\ last'.id \in DOMAIN store) =>
           /\ last'.status = 200 /\ last'.body = Deleted
           /\ store' = Restrict(store, DOMAIN store \ {last'.id})
           /\ last'.id \in gone'
      /\ gone' \cap IdsOf(QueryAll(store')) = {}
      /\ last'.op = "list" => gone' \cap IdsOf(last'.body) = {}
      /\ (last'.op = "delete" /\ last'.id \in gone) =>
           last'.status = 404 /\ store' = store ]_vars

\* A second Delete of a deleted id answered 404 while another record stays.
C5_Witness ==
  /\ last.op = "delete" /\ last.status = 404
  /\ last.id \in gone
  /\ DOMAIN store # {}

\* The stored records within distance of the reference point.
Near(st, args) ==
  {Entity(st, i) : i \in
     {j \in DOMAIN st :
        Geodesic(args.latitude, args.longitude, st[j].latitude, st[j].longitude)
          <= args.distance}}

\* C6: WithinDistance returns exactly the stored records whose distance from
\* the reference point is at most the given distance, each once, each one a
\* record ListAll returns, and does not modify the store.
C6_WithinDistanceExact ==
  [][ last'.op = "within" =>
        LET list == last'.body IN
        /\ {list[n] : n \in 1..Len(list)} = Near(store, last'.args)
        /\ Len(list) = Cardinality(Near(store, last'.args))
        /\ \A n \in 1..Len(list) : \E m \in 1..Len(QueryAll(store)) :
             QueryAll(store)[m] = list[n]
        /\ store' = store ]_vars

\* A record at exactly the asked distance is returned, another is left out.
C6_Witness ==
  /\ last.op = "within"
  /\ \E n \in 1..Len(last.body) :
       Geodesic(last.args.latitude, last.args.longitude,
                last.body[n].latitude, last.body[n].longitude) = last.args.distance
  /\ Len(last.body) < Cardinality(DOMAIN store)

\* C8: no stored record has a null latitude, longitude or name (no Update
\* can supply a null: a body that sends one is rejected).
C8_NoNullColumns ==
  \A i \in DOMAIN store :
    /\ store[i].latitude # None
    /\ store[i].longitude # None
    /\ store[i].name # None

\* An Update that sent a null was answered 422 with records in the store.
C8_Witness ==
  /\ last.op = "update" /\ last.status = 422
  /\ last.id \in DOMAIN store

\* --------------------------------------------- properties under ConcSpec
\* C7: a successful commit of an Update leaves each field the request
\* supplied at the supplied value (so the last commit decides every field it
\* supplied), and the record the request returns shows its supplied values.
C7_LastWriterWins ==
  [][ \A s \in Slots :
        /\ (At(s, "update", "queried") /\ req'[s].pc = "committed"
              /\ req[s].id \in DOMAIN store') =>
             \A k \in req[s].address.fields_set :
               store'[req[s].id][k] = req[s].address[k]
        /\ (At(s, "update", "committed") /\ req'[s].pc = "returned") =>
             \A k \in req[s].address.fields_set :
               req'[s].body[k] = req[s].address[k] ]_vars

\* C9: the open sessions are exactly those of the requests in progress, no
\* two requests in progress hold the same session, and the session of a
\* request that is over (returned, 404 or store failure) is closed.
C9_SessionPerRequestReleased ==
  /\ open = {req[s].db : s \in Active}
  /\ \A s \in Active, t \in Active : s # t => req[s].db # req[t].db
  /\ \A s \in Slots : req[s].pc = "done" => req[s].db \notin open

\* A request ended by a store failure has its session closed while the other
\* request is in progress with its own session open.
C9_Witness ==
  \E s \in Slots, t \in Slots :
    /\ req[s].pc = "done" /\ req[s].error = "OperationalError"
    /\ req[s].db \notin open
    /\ t \in Active /\ req[t].db \in open /\ req[t].db # req[s].db

\* C10: an Update or Delete ends with its effect applied to an existing
\* record or with 404, never with a server error raised because the record
\* vanished under it nor with a success for a record that was already gone.
C10_UpdateDeleteOutcomes ==
  \A s \in Slots :
    /\ (req[s].pc = "raised" /\ req[s].op \in {"update", "delete"}) =>
         req[s].status = 404 \/ req[s].error = "OperationalError"
    /\ (req[s].pc = "returned" /\ req[s].op = "delete") =>
         req[s].error = ""

====
